---- MODULE Spec2Model ----
(***************************************************************************)
(* Santa.ts: the Cookie record, its serialization, the Cookies manager     *)
(* (constructor, parse, get, set, remove, clear, has, keys) and the writes *)
(* the manager issues to document.cookie.                                  *)
(*                                                                         *)
(* Strings that the code only stores, compares and concatenates (cookie    *)
(* names and values passed to the methods, serialized cookies) are TLA+    *)
(* strings.  The raw cookie string that parse splits, trims and matches    *)
(* against regular expressions is a sequence of one-character strings.     *)
(* An optional value (T | undefined) is <<>> for undefined and <<x>> for x.*)
(***************************************************************************)
EXTENDS Integers, Sequences, FiniteSets, TLC

VARIABLES
    raw,            \* document.cookie as read by the constructor (characters)
    pc,             \* "parse": inside Cookies.parse; "ready": manager constructed
    cookieParts,    \* parse: cookies.split(';')
    partIndex,      \* parse: number of parts the for-loop has consumed
    currentCookie,  \* parse: the record in progress
    Cookies,        \* parse: the local output array
    cookies,        \* this.cookies
    written,        \* the strings assigned to document.cookie by the last call
    last,           \* the last method call: op, arguments, return value, this.cookies before it
    prev,           \* the call before the last one
    everSet,        \* the names that were passed to set so far
    ncalls          \* number of method calls made

vars == <<raw, pc, cookieParts, partIndex, currentCookie, Cookies, cookies,
          written, last, prev, everSet, ncalls>>

parseVars == <<raw, cookieParts, partIndex, currentCookie, Cookies>>

----------------------------------------------------------------------------
(* Bounds *)

MaxCalls == 3
MaxParts == 3

----------------------------------------------------------------------------
(* Optional values and characters *)

None == <<>>
Some(x) == <<x>>

Digits == {"0", "1", "2", "3", "4", "5", "6", "7", "8", "9"}
Lower == {"a", "b", "c", "d", "e", "f", "g", "h", "i", "j", "k", "l", "m",
          "n", "o", "p", "q", "r", "s", "t", "u", "v", "w", "x", "y", "z"}
Upper == {"A", "B", "C", "D", "E", "F", "G", "H", "I", "J", "K", "L", "M",
          "N", "O", "P", "Q", "R", "S", "T", "U", "V", "W", "X", "Y", "Z"}

\* the regular-expression class \w, \d and the white space String.trim removes
IsWord(c) == c \in Lower \cup Upper \cup Digits \cup {"_"}
IsDigit(c) == c \in Digits
WhiteSpace == {" ", "\t", "\n", "\r"}

\* the characters of a string, joined into one string
RECURSIVE Str(_)
Str(s) == IF s = <<>> THEN "" ELSE Head(s) \o Str(Tail(s))

\* String.prototype.split(sep) for a one-character separator
RECURSIVE Split(_, _)
Split(s, sep) ==
    IF \E i \in 1..Len(s) : s[i] = sep
    THEN LET i == CHOOSE k \in 1..Len(s) :
                    s[k] = sep /\ \A j \in 1..(k - 1) : s[j] # sep
         IN  <<SubSeq(s, 1, i - 1)>> \o Split(SubSeq(s, i + 1, Len(s)), sep)
    ELSE <<s>>

\* String.prototype.trim
RECURSIVE TrimStart(_)
TrimStart(s) ==
    IF s # <<>> /\ Head(s) \in WhiteSpace THEN TrimStart(Tail(s)) ELSE s

RECURSIVE TrimEnd(_)
TrimEnd(s) ==
    IF s # <<>> /\ s[Len(s)] \in WhiteSpace
    THEN TrimEnd(SubSeq(s, 1, Len(s) - 1)) ELSE s

Trim(s) == TrimEnd(TrimStart(s))

----------------------------------------------------------------------------
(* Dates.  A Date is modelled by its UTC string, "Invalid Date" included.  *)

EpochDate == "Thu, 01 Jan 1970 00:00:00 GMT"
SomeDate == "Wed, 09 Jun 2021 10:18:14 GMT"
InvalidDate == "Invalid Date"

\* `${date}`: Date.prototype.toString, in a host whose time zone is UTC
DateToString(d) ==
    CASE d = EpochDate -> "Thu Jan 01 1970 00:00:00 GMT+0000 (Coordinated Universal Time)"
      [] d = SomeDate -> "Wed Jun 09 2021 10:18:14 GMT+0000 (Coordinated Universal Time)"
      [] OTHER -> InvalidDate

\* new Date(value): the outcomes a host may produce for a date string.  A
\* string in the RFC 1123 form is that instant; for anything else the
\* language leaves the result to the host (an instant or an invalid date).
NewDate(value) ==
    IF value \in {EpochDate, SomeDate} THEN {value} ELSE {InvalidDate, SomeDate}

----------------------------------------------------------------------------
(* class Cookie *)

NewCookie ==
    [name |-> "", value |-> "", secure |-> FALSE,
     expires |-> None, path |-> None, domain |-> None]

\* truthiness of an optional string (undefined and '' are falsy)
TruthyStr(o) == o # None /\ o[1] # ""

CookieToString(c) ==
    c.name \o "=" \o c.value
    \o (IF c.expires # None THEN "; expires=" \o DateToString(c.expires[1]) ELSE "")
    \o (IF TruthyStr(c.path) THEN "; path=" \o c.path[1] ELSE "")
    \o (IF TruthyStr(c.domain) THEN "; domain=" \o c.domain[1] ELSE "")
    \o (IF c.secure THEN "; secure=true" ELSE "")

----------------------------------------------------------------------------
(* Cookies.parse *)

\* /\W{3}, \d{2} \w{3} \d{4} \d{2}:\d{2}:\d{2} \w+$/ up to its final \w+$:
\* one entry per character, a class (\W, \d, \w) or the literal itself
ExpiresPattern ==
    <<"\\W", "\\W", "\\W", ",", " ", "\\d", "\\d", " ", "\\w", "\\w", "\\w", " ",
      "\\d", "\\d", "\\d", "\\d", " ", "\\d", "\\d", ":", "\\d", "\\d", ":",
      "\\d", "\\d", " ">>

ClassMatches(cls, c) ==
    CASE cls = "\\W" -> ~IsWord(c)
      [] cls = "\\d" -> IsDigit(c)
      [] cls = "\\w" -> IsWord(c)
      [] OTHER -> c = cls

\* value.match(<the expires pattern>) is not null: the pattern is not
\* anchored at the start, and \w+$ takes one or more word characters up to
\* the end of the string
MatchesExpires(value) ==
    \E start \in 1..Len(value) :
        LET n == Len(ExpiresPattern) IN
        /\ start + n <= Len(value)
        /\ \A k \in 1..n : ClassMatches(ExpiresPattern[k], value[start + k - 1])
        /\ \A j \in (start + n)..Len(value) : IsWord(value[j])

PathChars ==
    Lower \cup Upper \cup Digits \cup
    {"-", ".", "_", "~", "%", "!", "$", "&", "'", "(", ")", "*", "+", ",",
     ";", "=", ":", "@", "/"}

\* value.match(/^\/([a-z0-9-._~%!$&'()*+,;=:@\/]*)?$/i) is not null
MatchesPath(value) ==
    /\ Len(value) >= 1
    /\ value[1] = "/"
    /\ \A j \in 2..Len(value) : value[j] \in PathChars

\* keyvalue[0].trim()
PartKey(part) == Trim(Split(part, "=")[1])

\* keyvalue[1] ? keyvalue[1].trim() : ''
PartValue(part) ==
    LET keyvalue == Split(part, "=") IN
    IF Len(keyvalue) >= 2 /\ keyvalue[2] # <<>> THEN Trim(keyvalue[2]) ELSE <<>>

\* ParseBody as it would be if a name part finalized the record in progress
\* and then gave its own name and value to the current record
ParseBodyNaming(cur, out, part, date) ==
    LET key == Str(PartKey(part))
        value == PartValue(part)
        named(c) == [c EXCEPT !.name = key, !.value = Str(value)]
    IN  CASE key = "expires" ->
               [currentCookie |->
                    [cur EXCEPT !.expires =
                        IF MatchesExpires(value) THEN Some(date) ELSE None],
                Cookies |-> out]
          [] key = "domain" ->
               [currentCookie |-> [cur EXCEPT !.domain = Some(Str(value))],
                Cookies |-> out]
          [] key = "path" ->
               [currentCookie |->
                    [cur EXCEPT !.path =
                        IF MatchesPath(value) THEN Some(Str(value)) ELSE None],
                Cookies |-> out]
          [] key = "secure" ->
               [currentCookie |-> [cur EXCEPT !.secure = TRUE], Cookies |-> out]
          [] OTHER ->
               IF cur.name # ""
               THEN [currentCookie |-> named(NewCookie), Cookies |-> Append(out, cur)]
               ELSE [currentCookie |-> named(cur), Cookies |-> out]

\* One iteration of the for-loop of parse over `part`, from the record in
\* progress cur and the output array out; date is the Date that
\* new Date(value) yields.
ParseBody(cur, out, part, date) ==
    LET key == Str(PartKey(part))
        value == PartValue(part)
    IN  CASE key = "expires" ->
               [currentCookie |->
                    [cur EXCEPT !.expires =
                        IF MatchesExpires(value) THEN Some(date) ELSE None],
                Cookies |-> out]
          [] key = "domain" ->
               [currentCookie |-> [cur EXCEPT !.domain = Some(Str(value))],
                Cookies |-> out]
          [] key = "path" ->
               [currentCookie |->
                    [cur EXCEPT !.path =
                        IF MatchesPath(value) THEN Some(Str(value)) ELSE None],
                Cookies |-> out]
          [] key = "secure" ->
               [currentCookie |-> [cur EXCEPT !.secure = TRUE], Cookies |-> out]
          [] OTHER ->
               IF cur.name # ""
               THEN [currentCookie |-> NewCookie, Cookies |-> Append(out, cur)]
               ELSE [currentCookie |-> cur, Cookies |-> out]

\* the body of the loop, applied to the next part
ParsePart ==
    /\ pc = "parse"
    /\ partIndex < Len(cookieParts)
    /\ LET part == cookieParts[partIndex + 1] IN
       \E date \in NewDate(Str(PartValue(part))) :
          LET r == ParseBody(currentCookie, Cookies, part, date) IN
          /\ currentCookie' = r.currentCookie
          /\ Cookies' = r.Cookies
    /\ partIndex' = partIndex + 1
    /\ UNCHANGED <<raw, pc, cookieParts, cookies, written, last, prev, everSet, ncalls>>

\* return Cookies; and the constructor's this.cookies = Cookies.parse(document.cookie)
ParseReturn ==
    /\ pc = "parse"
    /\ partIndex = Len(cookieParts)
    /\ cookies' = Cookies
    /\ pc' = "ready"
    /\ UNCHANGED <<parseVars, written, last, prev, everSet, ncalls>>

----------------------------------------------------------------------------
(* The raw cookie strings the model reads *)

TokA == <<"a", "=", "1">>
TokB == <<"b", "=", "2">>
TokExpires ==
    <<"e", "x", "p", "i", "r", "e", "s", "=", "W", "e", "d", ",", " ", "0", "9",
      " ", "J", "u", "n", " ", "2", "0", "2", "1", " ", "1", "0", ":", "1", "8",
      ":", "1", "4", " ", "G", "M", "T">>
TokExpiresNonWord ==
    <<"e", "x", "p", "i", "r", "e", "s", "=", "-", "-", "-", ",", " ", "0", "9",
      " ", "J", "u", "n", " ", "2", "0", "2", "1", " ", "1", "0", ":", "1", "8",
      ":", "1", "4", " ", "G", "M", "T">>
TokPath == <<"p", "a", "t", "h", "=", "/", "a", "p", "p">>
TokBadPath == <<"p", "a", "t", "h", "=", "a", "p", "p">>
TokDomain == <<"d", "o", "m", "a", "i", "n", "=", "x", ".", "o", "r", "g">>
TokSecure == <<"s", "e", "c", "u", "r", "e">>

NameTokens == {TokA, TokB}
AttributeTokens ==
    {TokExpires, TokExpiresNonWord, TokPath, TokBadPath, TokDomain, TokSecure}
Tokens == NameTokens \cup AttributeTokens

\* the tokens of ts joined by "; ", as document.cookie lists cookies
RECURSIVE JoinTokens(_)
JoinTokens(ts) ==
    IF ts = <<>> THEN <<>>
    ELSE IF Len(ts) = 1 THEN ts[1]
    ELSE ts[1] \o <<";", " ">> \o JoinTokens(Tail(ts))

TokenLists == UNION {[1..n -> Tokens] : n \in 0..MaxParts}

\* the raw strings parse is applied to
RawInputs == {JoinTokens(ts) : ts \in TokenLists}

\* the raw strings a manager is constructed over
ManagerRaws == {<<>>, JoinTokens(<<TokA, TokB>>)}

----------------------------------------------------------------------------
(* Initial states: the constructor is about to parse document.cookie *)

NoCall == [op |-> "none"]

InitOver(raws) ==
    /\ raw \in raws
    /\ pc = "parse"
    /\ cookieParts = Split(raw, ";")
    /\ partIndex = 0
    /\ currentCookie = NewCookie
    /\ Cookies = <<>>
    /\ cookies = <<>>
    /\ written = <<>>
    /\ last = NoCall
    /\ prev = NoCall
    /\ everSet = {}
    /\ ncalls = 0

ParseInit == InitOver(RawInputs)

ParseNext == ParsePart \/ ParseReturn

ParseSpec == ParseInit /\ [][ParseNext]_vars

----------------------------------------------------------------------------
(* The arguments the model passes to the methods *)

\* ordinary names, an array index, a property every array has and the empty
\* name
Names == {"a", "b", "0", "length", ""}
Values == {"v", "w"}

\* the optional arguments expires, path, domain, secure of set: all omitted,
\* or all given
NoOptions == [expires |-> None, path |-> None, domain |-> None, secure |-> FALSE]
AllOptions ==
    [expires |-> Some(SomeDate), path |-> Some("/app"), domain |-> Some("x.org"),
     secure |-> TRUE]
Options == {NoOptions, AllOptions}

----------------------------------------------------------------------------
(* Cookies: has, get, keys *)

\* the own and inherited property names of an array other than its indices
\* and "length" (Array.prototype and Object.prototype)
ArrayPrototype ==
    {"constructor", "at", "concat", "entries", "every", "fill", "filter", "find",
     "findIndex", "forEach", "includes", "indexOf", "join", "keys", "lastIndexOf",
     "map", "pop", "push", "reduce", "reverse", "shift", "slice", "some", "sort",
     "splice", "toString", "unshift", "values", "hasOwnProperty", "valueOf"}

\* name in arr, the JavaScript `in` operator on an array: name is a property
\* key of the array, that is the decimal form of an index below its length,
\* "length", or an inherited property
InArray(name, arr) ==
    \/ \E i \in 0..(Len(arr) - 1) : name = ToString(i)
    \/ name = "length"
    \/ name \in ArrayPrototype

has(cs, name) == InArray(name, cs)

\* this.cookies.find(cookie => cookie.name === name) as a position of cs
\* (1-based), 0 when find returns undefined
find(cs, name) ==
    IF \E i \in 1..Len(cs) : cs[i].name = name
    THEN CHOOSE i \in 1..Len(cs) :
            cs[i].name = name /\ \A j \in 1..(i - 1) : cs[j].name # name
    ELSE 0

get(cs, name) ==
    IF has(cs, name)
    THEN IF find(cs, name) # 0 THEN Some(cs[find(cs, name)].value) ELSE None
    ELSE None

keys(cs) == [i \in 1..Len(cs) |-> cs[i].name]

----------------------------------------------------------------------------
(* Cookies: set, remove, clear.  Each yields the new this.cookies, the     *)
(* strings assigned to document.cookie, in order, and the return value.    *)

set(cs, name, value, opt) ==
    IF has(cs, name)
    THEN LET i == find(cs, name) IN
         IF i # 0
         THEN LET cookie == [cs[i] EXCEPT !.value = value,
                                          !.expires = opt.expires,
                                          !.path = opt.path,
                                          !.domain = opt.domain,
                                          !.secure = opt.secure]
              IN  [cookies |-> [cs EXCEPT ![i] = cookie],
                   written |-> <<CookieToString(cookie)>>,
                   ret |-> TRUE]
         ELSE [cookies |-> cs, written |-> <<>>, ret |-> TRUE]
    ELSE LET cookie == [NewCookie EXCEPT !.name = name,
                                         !.value = value,
                                         !.expires = opt.expires,
                                         !.path = opt.path,
                                         !.domain = opt.domain,
                                         !.secure = opt.secure]
         IN  [cookies |-> Append(cs, cookie),
              written |-> <<CookieToString(cookie)>>,
              ret |-> FALSE]

\* cookie.value = ''; cookie.expires = new Date(0)
Expire(cookie) == [cookie EXCEPT !.value = "", !.expires = Some(EpochDate)]

\* remove as it would be if it deleted the record from the array
removeSplicing(cs, name) ==
    IF has(cs, name)
    THEN LET i == find(cs, name) IN
         IF i # 0
         THEN [cookies |-> SubSeq(cs, 1, i - 1) \o SubSeq(cs, i + 1, Len(cs)),
               written |-> <<CookieToString(Expire(cs[i]))>>,
               ret |-> TRUE]
         ELSE [cookies |-> cs, written |-> <<>>, ret |-> TRUE]
    ELSE [cookies |-> cs, written |-> <<>>, ret |-> FALSE]

remove(cs, name) ==
    IF has(cs, name)
    THEN LET i == find(cs, name) IN
         IF i # 0
         THEN [cookies |-> [cs EXCEPT ![i] = Expire(cs[i])],
               written |-> <<CookieToString(Expire(cs[i]))>>,
               ret |-> TRUE]
         ELSE [cookies |-> cs, written |-> <<>>, ret |-> TRUE]
    ELSE [cookies |-> cs, written |-> <<>>, ret |-> FALSE]

\* clear as it would be with `return true` inside the for-loop: only the
\* first record is blanked and written
clearReturnInLoop(cs) ==
    IF Len(cs) > 0
    THEN [cookies |-> [cs EXCEPT ![1] = Expire(cs[1])],
          written |-> <<CookieToString(Expire(cs[1]))>>,
          ret |-> TRUE]
    ELSE [cookies |-> cs, written |-> <<>>, ret |-> FALSE]

clear(cs) ==
    IF Len(cs) > 0
    THEN [cookies |-> [i \in 1..Len(cs) |-> Expire(cs[i])],
          written |-> [i \in 1..Len(cs) |-> CookieToString(Expire(cs[i]))],
          ret |-> TRUE]
    ELSE [cookies |-> cs, written |-> <<>>, ret |-> FALSE]

----------------------------------------------------------------------------
(* The method calls as steps of a constructed manager *)

CanCall == pc = "ready" /\ ncalls < MaxCalls

\* a mutating call with result r: this.cookies, the writes and the call record
Mutate(r, call) ==
    /\ cookies' = r.cookies
    /\ written' = r.written
    /\ last' = [call EXCEPT !.ret = r.ret]
    /\ prev' = last
    /\ ncalls' = ncalls + 1

\* a reading call as it would be if it used an in-place array method
\* (this.cookies.reverse()) on the way to its result
ReadReversing(call) ==
    /\ last' = call
    /\ prev' = last
    /\ ncalls' = ncalls + 1
    /\ written' = <<>>
    /\ cookies' = [i \in 1..Len(cookies) |-> cookies[Len(cookies) + 1 - i]]

\* a call that only reads this.cookies
Read(call) ==
    /\ last' = call
    /\ prev' = last
    /\ ncalls' = ncalls + 1
    /\ written' = <<>>
    /\ UNCHANGED cookies

CallRecord(op, name, value, opt, ret) ==
    [op |-> op, name |-> name, value |-> value, opt |-> opt, ret |-> ret,
     before |-> cookies]

Set ==
    /\ CanCall
    /\ \E name \in Names, value \in Values, opt \in Options :
          /\ Mutate(set(cookies, name, value, opt),
                    CallRecord("set", name, value, opt, FALSE))
          /\ everSet' = everSet \cup {name}
    /\ UNCHANGED <<parseVars, pc>>

Remove ==
    /\ CanCall
    /\ \E name \in Names :
          Mutate(remove(cookies, name),
                 CallRecord("remove", name, "", NoOptions, FALSE))
    /\ UNCHANGED <<parseVars, pc, everSet>>

Clear ==
    /\ CanCall
    /\ Mutate(clear(cookies), CallRecord("clear", "", "", NoOptions, FALSE))
    /\ UNCHANGED <<parseVars, pc, everSet>>

Get ==
    /\ CanCall
    /\ \E name \in Names :
          Read(CallRecord("get", name, "", NoOptions, get(cookies, name)))
    /\ UNCHANGED <<parseVars, pc, everSet>>

Has ==
    /\ CanCall
    /\ \E name \in Names :
          Read(CallRecord("has", name, "", NoOptions, has(cookies, name)))
    /\ UNCHANGED <<parseVars, pc, everSet>>

Keys ==
    /\ CanCall
    /\ Read(CallRecord("keys", "", "", NoOptions, keys(cookies)))
    /\ UNCHANGED <<parseVars, pc, everSet>>

Init == InitOver(ManagerRaws)

Next ==
    \/ ParsePart
    \/ ParseReturn
    \/ Set
    \/ Remove
    \/ Clear
    \/ Get
    \/ Has
    \/ Keys

Spec == Init /\ [][Next]_vars

----------------------------------------------------------------------------
(* Properties *)

\* some record of cs is named name
Named(cs, name) == \E i \in 1..Len(cs) : cs[i].name = name

\* C1: immediately after set(n, v), get(n) returns v and has(n) returns true.
C1_SetThenGetHas ==
    last.op = "set" =>
        /\ get(cookies, last.name) = Some(last.value)
        /\ has(cookies, last.name)

\* C2: after set(n, v1) followed by set(n, v2), get(n) returns v2 and the
\* second set returned true.
C2_SetTwiceOverwrites ==
    (prev.op = "set" /\ last.op = "set" /\ prev.name = last.name) =>
        /\ get(cookies, last.name) = Some(last.value)
        /\ last.ret = TRUE

\* C3: after set(n, v) followed by remove(n), get(n) returns undefined (not
\* the blanked value '').
C3_RemoveThenGetAbsent ==
    (prev.op = "set" /\ last.op = "remove" /\ prev.name = last.name) =>
        get(cookies, last.name) = None

\* C4: after clear() on a manager in which two or more distinct names were
\* set, get returns undefined for every one of those names.
C4_ClearThenGetAbsent ==
    (last.op = "clear" /\ Cardinality(everSet) >= 2) =>
        \A n \in everSet : get(cookies, n) = None

\* C5: on a manager built over the empty cookie string, after any calls, every
\* name never passed to set has get(name) undefined and has(name) false.
C5_NeverSetIsAbsent ==
    (pc = "ready" /\ raw = <<>>) =>
        \A n \in Names \ everSet :
            get(cookies, n) = None /\ ~has(cookies, n)

\* C6: remove(n) with no record named n returns false, writes nothing and
\* leaves the collection unchanged; remove never returns true without a
\* record named n.
C6_RemoveOfMissing ==
    last.op = "remove" =>
        /\ ~Named(last.before, last.name) =>
              (last.ret = FALSE /\ written = <<>> /\ cookies = last.before)
        /\ last.ret = TRUE => Named(last.before, last.name)

\* C7: every call of set(name, value, ...) writes exactly one entry to the
\* host store, the serialized record named name carrying the value given.
C7_SetWritesOnce ==
    last.op = "set" =>
        /\ Len(written) = 1
        /\ \E i \in 1..Len(cookies) :
              /\ cookies[i].name = last.name
              /\ cookies[i].value = last.value
              /\ written[1] = CookieToString(cookies[i])

\* C8: no two records of the collection have the same name.
C8_UniqueNames ==
    \A i, j \in 1..Len(cookies) :
        i # j => cookies[i].name # cookies[j].name

\* C9: after set(a) then set(b) on an empty manager, with a # b, keys() is
\* exactly [a, b].
C9_KeysInsertionOrder ==
    (/\ prev.op = "set" /\ last.op = "set"
     /\ prev.before = <<>>
     /\ prev.name # last.name) =>
        keys(cookies) = <<prev.name, last.name>>

\* a part whose key is a cookie name: not empty and not an attribute key
IsNamePart(part) ==
    Str(PartKey(part)) \notin {"", "expires", "domain", "path", "secure"}

\* the record a name part stands for
RecordOf(part) ==
    [NewCookie EXCEPT !.name = Str(PartKey(part)), !.value = Str(PartValue(part))]

\* C10: parse sets the current record's name and value from every name part,
\* and for a raw string of k >= 1 name=value parts and no attribute parts it
\* returns exactly the first k-1 records, in order.
C10_ParseNameTokens ==
    /\ (partIndex >= 1 /\ IsNamePart(cookieParts[partIndex])) =>
          /\ currentCookie.name = Str(PartKey(cookieParts[partIndex]))
          /\ currentCookie.value = Str(PartValue(cookieParts[partIndex]))
    /\ (/\ partIndex = Len(cookieParts)
        /\ \A i \in 1..Len(cookieParts) : IsNamePart(cookieParts[i])) =>
          Cookies = [i \in 1..(Len(cookieParts) - 1) |-> RecordOf(cookieParts[i])]

\* C11: serialization yields name=value followed, in this order, by
\* "; expires=<date>", "; path=<path>", "; domain=<domain>" and the bare
\* token "; secure", each present exactly when the attribute is set.
C11_SerializationFormat ==
    \A i \in 1..Len(cookies) :
        LET c == cookies[i] IN
        CookieToString(c) =
            c.name \o "=" \o c.value
            \o (IF c.expires # None THEN "; expires=" \o DateToString(c.expires[1]) ELSE "")
            \o (IF c.path # None THEN "; path=" \o c.path[1] ELSE "")
            \o (IF c.domain # None THEN "; domain=" \o c.domain[1] ELSE "")
            \o (IF c.secure THEN "; secure" ELSE "")

\* C12: in every reachable state of the manager every record of the
\* collection has a non-empty name.
C12_NoEmptyName ==
    pc = "ready" => \A i \in 1..Len(cookies) : cookies[i].name # ""

\* a part whose key is expires
IsExpiresPart(part) == Str(PartKey(part)) = "expires"

\* C13: parsing any raw string, one with an attribute token before any name
\* token included, never stops before its return (the loop has a next part
\* or returns, and every part has a key to trim, so nothing raises), and the
\* output holds no empty-named record and no
\* record with an expiry that did not follow a name token of its own.
C13_ParseAttributeFirst ==
    /\ pc = "parse" => partIndex <= Len(cookieParts)
    /\ \A i \in 1..Len(cookieParts) : Len(Split(cookieParts[i], "=")) >= 1
    /\ \A i \in 1..Len(Cookies) :
          /\ Cookies[i].name # ""
          /\ Cookies[i].expires # None =>
                \E j, k \in 1..partIndex :
                    /\ j < k
                    /\ IsNamePart(cookieParts[j])
                    /\ Str(PartKey(cookieParts[j])) = Cookies[i].name
                    /\ IsExpiresPart(cookieParts[k])

\* C13 witness: parse has returned for a raw string whose first part is an
\* expires token with a matching date and whose second part is a name token
C13_Witness ==
    /\ pc = "ready"
    /\ Len(cookieParts) >= 2
    /\ IsExpiresPart(cookieParts[1])
    /\ MatchesExpires(PartValue(cookieParts[1]))
    /\ IsNamePart(cookieParts[2])
    /\ currentCookie.expires # None

\* C14: has(name) returns true exactly when some record of the collection
\* has that name.
C14_HasIsNameSearch ==
    last.op = "has" => (last.ret <=> Named(cookies, last.name))

\* C15: set(name, ...) returns true exactly when a record with that name
\* existed before the call, and then the length is unchanged and that record
\* is updated in place; otherwise it returns false and exactly one new record
\* with the given name and attributes is appended at the end.
C15_SetUpdatesOrAppends ==
    last.op = "set" =>
        LET given == [name |-> last.name, value |-> last.value,
                      secure |-> last.opt.secure, expires |-> last.opt.expires,
                      path |-> last.opt.path, domain |-> last.opt.domain]
        IN  IF Named(last.before, last.name)
            THEN /\ last.ret = TRUE
                 /\ cookies = [last.before EXCEPT ![find(last.before, last.name)] = given]
            ELSE /\ last.ret = FALSE
                 /\ cookies = Append(last.before, given)

C17_Clear ==
    last.op = "clear" =>
        /\ last.ret = (Len(last.before) > 0)
        /\ Len(cookies) = Len(last.before)
        /\ \A i \in 1..Len(cookies) :
              /\ cookies[i].value = ""
              /\ cookies[i].expires = Some(EpochDate)
        /\ Len(written) = Len(last.before)
        /\ \A i \in 1..Len(written) : written[i] = CookieToString(cookies[i])

\* C17 witness: clear() was called on two or more records, one with a value
C17_Witness ==
    /\ last.op = "clear"
    /\ Len(last.before) >= 2
    /\ \E i \in 1..Len(last.before) : last.before[i].value # ""
    /\ last.ret = TRUE

\* C18: the collection is append-only: across any set/remove/clear call the
\* previous keys() is a prefix of the new one, remove and clear leave the
\* length unchanged, and so a removed name is still listed by keys().
C18_AppendOnly ==
    last.op \in {"set", "remove", "clear"} =>
        /\ Len(last.before) <= Len(cookies)
        /\ SubSeq(keys(cookies), 1, Len(last.before)) = keys(last.before)
        /\ last.op \in {"remove", "clear"} => Len(cookies) = Len(last.before)
        /\ (last.op = "remove" /\ Named(last.before, last.name)) =>
              Named(cookies, last.name)

\* C18 witness: remove blanked a record and its name is still a key
C18_Witness ==
    /\ last.op = "remove"
    /\ written # <<>>
    /\ \E i \in 1..Len(cookies) : keys(cookies)[i] = last.name

\* C19: get, has and keys leave the record collection unchanged and write
\* nothing to the host cookie store.
C19_ReadsChangeNothing ==
    last.op \in {"get", "has", "keys"} =>
        /\ cookies = last.before
        /\ written = <<>>

\* C19 witness: get returned the value of a record of a non-empty collection
C19_Witness ==
    /\ last.op = "get"
    /\ last.ret # None
    /\ Len(cookies) >= 1

====
